---- MODULE Spec2Model ----
(***************************************************************************)
(* The filesystem scanner of src-tauri/src/scanner.rs: calculate_folder_-  *)
(* size, list_directory and get_disks, run against a small filesystem that *)
(* the environment creates, removes and protects entries of.               *)
(***************************************************************************)
EXTENDS Integers, Sequences, FiniteSets, TLC

\* ------------------------------------------------------------------ bounds
MaxNodes == 6        \* entries of the filesystem besides the root
MaxLeaves == 3       \* entries of the filesystem that have no children
MaxLen == 1          \* largest byte length of a regular file
MaxFaults == 1       \* entries whose metadata or content cannot be read
MaxFaultyNodes == 4  \* entries of a filesystem that holds such an entry
MaxDrives == 2       \* probed paths that exist at once

\* File names are sequences of characters: "a", "b.", "c" and the hidden ".h".
Names == { <<"a">>, <<"b", ".">>, <<"c">>, <<".", "h">> }

\* Below the top level directories hold one visible and one hidden name.
DeepNames == { <<"a">>, <<".", "h">> }

VARIABLES
    fs,        \* the filesystem: path (a sequence of names) -> entry
    pc,        \* "idle", or "returned" while the caller holds a result
    arg,       \* the path the last list_directory call was given
    listing,   \* the children of arg in the order read_dir produced them
    ret,       \* the value the last call returned
    platform,  \* the target_os the scanner was built for
    host,      \* what the volume probes of get_disks find
    stack      \* the activations of calculate_folder_size, innermost last

vars == <<fs, pc, arg, listing, ret, platform, host, stack>>

\* --------------------------------------------------------------- filesystem
Root == << >>

\* An entry: kind "file" | "dir"; len, the byte length metadata reports;
\* access "ok", "nometa" (its metadata cannot be read) or "noread" (a
\* directory whose content cannot be read).
File(len) == [kind |-> "file", len |-> len, access |-> "ok"]

Dir == [kind |-> "dir", len |-> 0, access |-> "ok"]

Parent(p) == SubSeq(p, 1, Len(p) - 1)

IsPrefix(p, q) == Len(p) <= Len(q) /\ SubSeq(q, 1, Len(p)) = p

Under(p, q) == Len(p) < Len(q) /\ IsPrefix(p, q)

Children(f, p) == { q \in DOMAIN f : Len(q) = Len(p) + 1 /\ Parent(q) = p }

Leaves(f) == { q \in DOMAIN f \ {Root} : Children(f, q) = {} }

Faults(f) == { p \in DOMAIN f : f[p].access # "ok" }

Create(f, p, e) == [q \in DOMAIN f \cup {p} |-> IF q = p THEN e ELSE f[q]]

RemoveSubtree(f, p) == [q \in { r \in DOMAIN f : ~IsPrefix(p, r) } |-> f[q]]

SetAccess(f, p, a) == [f EXCEPT ![p].access = a]

\* The filesystems the environment builds.
Admissible(f) ==
    /\ Cardinality(DOMAIN f) - 1 <= MaxNodes
    /\ Cardinality(Leaves(f)) <= MaxLeaves
    /\ Cardinality(Faults(f)) <= MaxFaults
    /\ Faults(f) # {} => Cardinality(DOMAIN f) - 1 <= MaxFaultyNodes

RECURSIVE SumOver(_, _)
SumOver(S, f) ==
    IF S = {} THEN 0
    ELSE LET x == CHOOSE y \in S : TRUE IN f[x] + SumOver(S \ {x}, f)

\* The orders in which read_dir may produce the set S of entries.
Orderings(S) ==
    { s \in [1..Cardinality(S) -> S] :
        \A i, j \in 1..Cardinality(S) : i # j => s[i] # s[j] }

\* ------------------------------------------------------------ std::fs, Path
\* Path::file_name of an entry's path: its last component.
file_name(p) == IF p = Root THEN << >> ELSE p[Len(p)]

\* Variant: the test looks at the last character.
starts_with_dot_last(name) == Len(name) > 0 /\ name[Len(name)] = "."

\* str::starts_with('.')
starts_with_dot(name) == Len(name) > 0 /\ name[1] = "."

\* fs::metadata / DirEntry::metadata succeeds
metadata_ok(f, p) == p \in DOMAIN f /\ f[p].access # "nometa"

\* Path::exists: false also when the metadata cannot be read
exists(f, p) == metadata_ok(f, p)

\* Path::is_dir: false also when the metadata cannot be read
is_dir(f, p) == metadata_ok(f, p) /\ f[p].kind = "dir"

\* fs::read_dir succeeds
read_dir_ok(f, p) == p \in DOMAIN f /\ f[p].kind = "dir" /\ f[p].access = "ok"

\* ---------------------------------------------------- calculate_folder_size
\* The recursion ceiling of calculate_folder_size.
DepthLimit == 3

\* Variant: the ceiling one level further down.
too_deep_late(depth) == depth > DepthLimit + 1

\* Variant: the ceiling one level further up.
too_deep_early(depth) == depth >= DepthLimit

\* The test that ends the recursion.
too_deep(depth) == depth > DepthLimit

\* Variant: hidden directories are descended into as well.
descends_hidden(f, q) == f[q].kind = "dir"

\* The entries the recursion descends into: directories that are not hidden.
descends(f, q) == f[q].kind = "dir" /\ ~starts_with_dot(file_name(q))

\* calculate_folder_size(path, depth): the value it returns.
RECURSIVE calculate_folder_size(_, _, _)
calculate_folder_size(f, path, depth) ==
    IF too_deep(depth) THEN 0
    ELSE LET entries == IF read_dir_ok(f, path) THEN Children(f, path) ELSE {}
         IN  SumOver(entries,
                 [q \in entries |->
                     IF ~metadata_ok(f, q) THEN 0
                     ELSE IF f[q].kind = "file" THEN f[q].len
                     ELSE IF descends(f, q) THEN calculate_folder_size(f, q, depth + 1)
                     ELSE 0])

\* ------------------------------------------------------------ list_directory
FileEntry(name, path, isdir, size) ==
    [name |-> name, path |-> path, is_dir |-> isdir, size |-> size]

\* u64::cmp
cmp(x, y) == IF x < y THEN "Less" ELSE IF x > y THEN "Greater" ELSE "Equal"

\* Variant: smaller first within a group.
compare_ascending(a, b) ==
    IF a.is_dir /\ ~b.is_dir THEN "Less"
    ELSE IF ~a.is_dir /\ b.is_dir THEN "Greater"
    ELSE cmp(a.size, b.size)

\* The closure given to sort_by: folders first, then larger first.
compare(a, b) ==
    IF a.is_dir /\ ~b.is_dir THEN "Less"
    ELSE IF ~a.is_dir /\ b.is_dir THEN "Greater"
    ELSE cmp(b.size, a.size)

\* Variant: x goes in front of the elements it compares Equal to, as an
\* unstable sort may place it.
RECURSIVE insert_sorted_unstable(_, _)
insert_sorted_unstable(s, x) ==
    IF s = << >> THEN <<x>>
    ELSE IF compare(x, Head(s)) # "Greater" THEN <<x>> \o s
    ELSE <<Head(s)>> \o insert_sorted_unstable(Tail(s), x)

\* x put into the sorted s behind every element that does not compare
\* Greater than it.
RECURSIVE insert_sorted(_, _)
insert_sorted(s, x) ==
    IF s = << >> THEN <<x>>
    ELSE IF compare(x, Head(s)) = "Less" THEN <<x>> \o s
    ELSE <<Head(s)>> \o insert_sorted(Tail(s), x)

\* slice::sort_by, a stable sort: equal elements keep their order.
RECURSIVE sort_by(_)
sort_by(s) ==
    IF s = << >> THEN << >>
    ELSE insert_sorted(sort_by(SubSeq(s, 1, Len(s) - 1)), s[Len(s)])

\* Variant: the loop ends at the first entry whose metadata cannot be read.
RECURSIVE collect_break(_, _)
collect_break(f, enum) ==
    IF enum = << >> THEN << >>
    ELSE LET entry_path == Head(enum)
             name == file_name(entry_path)
         IN  IF ~metadata_ok(f, entry_path) THEN << >>
             ELSE IF starts_with_dot(name) THEN collect_break(f, Tail(enum))
             ELSE LET isdir == f[entry_path].kind = "dir"
                      size == IF isdir
                              THEN calculate_folder_size(f, entry_path, 0)
                              ELSE f[entry_path].len
                  IN  <<FileEntry(name, entry_path, isdir, size)>>
                          \o collect_break(f, Tail(enum))

\* The loop over the entries read_dir produced, in that order.
RECURSIVE collect(_, _)
collect(f, enum) ==
    IF enum = << >> THEN << >>
    ELSE LET entry_path == Head(enum)
             rest == collect(f, Tail(enum))
             name == file_name(entry_path)
         IN  IF ~metadata_ok(f, entry_path) THEN rest
             ELSE IF starts_with_dot(name) THEN rest
             ELSE LET isdir == f[entry_path].kind = "dir"
                      size == IF isdir
                              THEN calculate_folder_size(f, entry_path, 0)
                              ELSE f[entry_path].len
                  IN  <<FileEntry(name, entry_path, isdir, size)>> \o rest

Ok(entries) == [tag |-> "Ok", entries |-> entries]

Err(msg, path) == [tag |-> "Err", msg |-> msg, path |-> path]

\* Variant: the directory check made before the existence check.
list_directory_swapped(f, path, enum) ==
    IF ~is_dir(f, path) THEN Err("Path is not a directory", path)
    ELSE IF ~exists(f, path) THEN Err("Path does not exist", path)
    ELSE IF ~read_dir_ok(f, path) THEN Err("io", path)
    ELSE Ok(sort_by(collect(f, enum)))

\* list_directory(path), with enum the order read_dir produces the children.
list_directory(f, path, enum) ==
    IF ~exists(f, path) THEN Err("Path does not exist", path)
    ELSE IF ~is_dir(f, path) THEN Err("Path is not a directory", path)
    ELSE IF ~read_dir_ok(f, path) THEN Err("io", path)
    ELSE Ok(sort_by(collect(f, enum)))

\* ---------------------------------------------------------------- get_disks
DiskInfo(name, path) ==
    [name |-> name, path |-> path, total_space |-> 0, available_space |-> 0]

\* What the probes find: present, the probed paths for which Path::exists
\* holds; volumes_readable, whether read_dir("/Volumes") succeeds; volumes,
\* the entries of /Volumes, each "dir", "file" or "nometa" (fs::metadata
\* fails); home, whether dirs::home_dir() is Some.
NoHost == [present |-> {}, volumes_readable |-> FALSE,
           volumes |-> << >>, home |-> FALSE]

HomePath == <<"/Users", "me">>

\* The loop over the entries of /Volumes, in the order enum.
RECURSIVE volumes_loop(_, _)
volumes_loop(h, enum) ==
    IF enum = << >> THEN << >>
    ELSE LET name == Head(enum)
             rest == volumes_loop(h, Tail(enum))
         IN  IF h.volumes[name] = "dir"
             THEN <<DiskInfo(name, <<"/Volumes", name>>)>> \o rest
             ELSE rest

\* #[cfg(target_os = "macos")]
macos_disks(h, enum) ==
    LET disks == IF h.volumes_readable THEN volumes_loop(h, enum) ELSE << >>
    IN  IF h.home THEN <<DiskInfo("Home", HomePath)>> \o disks ELSE disks

\* b'A'..=b'Z' as char
Letters == <<"A", "B", "C", "D", "E", "F", "G", "H", "I", "J", "K", "L", "M",
             "N", "O", "P", "Q", "R", "S", "T", "U", "V", "W", "X", "Y", "Z">>

\* format!("{}:\\", letter as char)
drive(letter) == <<Letters[letter], ":", "\\">>

\* format!("{}: Drive", letter as char)
drive_name(letter) == <<Letters[letter], ":", " ", "Drive">>

\* #[cfg(target_os = "windows")]: the loop from letter on.
RECURSIVE windows_disks(_, _)
windows_disks(h, letter) ==
    IF letter > Len(Letters) THEN << >>
    ELSE IF drive(letter) \in h.present
    THEN <<DiskInfo(drive_name(letter), drive(letter))>> \o windows_disks(h, letter + 1)
    ELSE windows_disks(h, letter + 1)

mount_points == <<"/", "/home", "/mnt", "/media">>

\* Variant: every mount point is pushed, found or not.
RECURSIVE linux_disks_unchecked(_, _)
linux_disks_unchecked(h, i) ==
    IF i > Len(mount_points) THEN << >>
    ELSE <<DiskInfo(mount_points[i], mount_points[i])>> \o linux_disks_unchecked(h, i + 1)

\* #[cfg(target_os = "linux")]: the loop from the i-th mount point on.
RECURSIVE linux_disks(_, _)
linux_disks(h, i) ==
    IF i > Len(mount_points) THEN << >>
    ELSE IF mount_points[i] \in h.present
    THEN <<DiskInfo(mount_points[i], mount_points[i])>> \o linux_disks(h, i + 1)
    ELSE linux_disks(h, i + 1)

\* get_disks(), with enum the order read_dir produces the entries of /Volumes.
get_disks(os, h, enum) ==
    IF os = "macos" THEN macos_disks(h, enum)
    ELSE IF os = "windows" THEN windows_disks(h, 1)
    ELSE linux_disks(h, 1)

\* ------------------------------------------------------------------ actions
NoCall == [tag |-> "None"]

\* The paths list_directory is called with.
ArgPaths == {Root} \cup { <<n>> : n \in Names }

Init ==
    /\ fs = [p \in {Root} |-> Dir]
    /\ pc = "idle"
    /\ arg = Root
    /\ listing = << >>
    /\ ret = NoCall
    /\ platform = "linux"
    /\ host = NoHost
    /\ stack = << >>

\* The name n may be created in the directory p; top are the names of the
\* top level.
CanCreate(p, n, top) ==
    /\ pc = "idle"
    /\ fs[p].kind = "dir"
    /\ n \in (IF p = Root THEN top ELSE DeepNames)
    /\ Append(p, n) \notin DOMAIN fs

\* The environment creates a directory.
MkdirIn(top) ==
    \E p \in DOMAIN fs, n \in Names :
        /\ CanCreate(p, n, top)
        /\ Admissible(Create(fs, Append(p, n), Dir))
        /\ fs' = Create(fs, Append(p, n), Dir)
        /\ UNCHANGED <<pc, arg, listing, ret, platform, host, stack>>

Mkdir == MkdirIn(Names)

\* The environment creates a regular file of len bytes.
WriteFileIn(top) ==
    \E p \in DOMAIN fs, n \in Names, len \in 0..MaxLen :
        /\ CanCreate(p, n, top)
        /\ Admissible(Create(fs, Append(p, n), File(len)))
        /\ fs' = Create(fs, Append(p, n), File(len))
        /\ UNCHANGED <<pc, arg, listing, ret, platform, host, stack>>

WriteFile == WriteFileIn(Names)

\* The environment removes an entry with everything under it.
Remove ==
    \E p \in DOMAIN fs \ {Root} :
        /\ pc = "idle"
        /\ Admissible(RemoveSubtree(fs, p))
        /\ fs' = RemoveSubtree(fs, p)
        /\ UNCHANGED <<pc, arg, listing, ret, platform, host, stack>>

\* The environment changes what may be read of an entry.
Chmod ==
    \E p \in DOMAIN fs \ {Root}, a \in {"ok", "nometa", "noread"} :
        /\ pc = "idle"
        /\ a # fs[p].access
        /\ a = "noread" => fs[p].kind = "dir"
        /\ Admissible(SetAccess(fs, p, a))
        /\ fs' = SetAccess(fs, p, a)
        /\ UNCHANGED <<pc, arg, listing, ret, platform, host, stack>>

\* A call of list_directory, start to return.
ListDirectory ==
    \E path \in ArgPaths :
        \E enum \in Orderings(IF read_dir_ok(fs, path) THEN Children(fs, path) ELSE {}) :
            /\ pc = "idle"
            /\ ret' = list_directory(fs, path, enum)
            /\ arg' = path
            /\ listing' = enum
            /\ pc' = "returned"
            /\ UNCHANGED <<fs, platform, host, stack>>

\* The caller drops the result.
Return ==
    /\ pc = "returned"
    /\ pc' = "idle"
    /\ arg' = Root
    /\ listing' = << >>
    /\ ret' = NoCall
    /\ UNCHANGED <<fs, platform, host, stack>>

Next == Mkdir \/ WriteFile \/ Remove \/ Chmod \/ ListDirectory \/ Return

Spec == Init /\ [][Next]_vars

\* ------------------------------------- calculate_folder_size, step by step
\* The orders in which read_dir(path) produces the entries that an
\* activation with this depth loops over: none when the depth test ends
\* the call or read_dir fails.
ScanOrders(f, path, depth) ==
    Orderings(IF too_deep(depth) \/ ~read_dir_ok(f, path) THEN {} ELSE Children(f, path))

\* An activation of calculate_folder_size(path, depth): reads, whether it
\* got past the depth test to read_dir; todo, the entries its loop has yet
\* to visit; size, its local.
Frame(path, depth, enum) ==
    [path |-> path, depth |-> depth, reads |-> ~too_deep(depth),
     todo |-> enum, size |-> 0]

Top == stack[Len(stack)]

SetTop(fr) == [stack EXCEPT ![Len(stack)] = fr]

\* list_directory calls calculate_folder_size(entry_path, 0); the entry is
\* the root of the filesystem.
ScanCall ==
    \E enum \in ScanOrders(fs, Root, 0) :
        /\ pc = "idle"
        /\ pc' = "scanning"
        /\ arg' = Root
        /\ stack' = <<Frame(Root, 0, enum)>>
        /\ UNCHANGED <<fs, listing, ret, platform, host>>

\* One turn of the loop of the innermost activation.
ScanEntry ==
    /\ pc = "scanning"
    /\ Top.todo # << >>
    /\ LET q == Head(Top.todo)
           rest == [Top EXCEPT !.todo = Tail(@)]
       IN  IF ~metadata_ok(fs, q) THEN stack' = SetTop(rest)
           ELSE IF fs[q].kind = "file"
           THEN stack' = SetTop([rest EXCEPT !.size = @ + fs[q].len])
           ELSE IF descends(fs, q)
           THEN \E enum \in ScanOrders(fs, q, Top.depth + 1) :
                    stack' = Append(SetTop(rest), Frame(q, Top.depth + 1, enum))
           ELSE stack' = SetTop(rest)
    /\ UNCHANGED <<fs, pc, arg, listing, ret, platform, host>>

\* The innermost activation returns its size, to its caller's size or, the
\* outermost, to list_directory.
ScanExit ==
    /\ pc = "scanning"
    /\ Top.todo = << >>
    /\ IF Len(stack) = 1
       THEN /\ ret' = Top.size
            /\ pc' = "returned"
            /\ stack' = << >>
       ELSE /\ stack' = [SubSeq(stack, 1, Len(stack) - 1)
                            EXCEPT ![Len(stack) - 1].size = @ + Top.size]
            /\ UNCHANGED <<pc, ret>>
    /\ UNCHANGED <<fs, arg, listing, platform, host>>

DeepMkdir == MkdirIn(DeepNames)

DeepWriteFile == WriteFileIn(DeepNames)

ScanNext ==
    \/ DeepMkdir \/ DeepWriteFile \/ Remove \/ Chmod
    \/ ScanCall \/ ScanEntry \/ ScanExit \/ Return

\* The scan is sequential code: an activation that can take its next step
\* takes it.
ScanSpec == Init /\ [][ScanNext]_vars /\ WF_vars(ScanEntry) /\ WF_vars(ScanExit)

\* ----------------------------------------------------- volume enumeration
Platforms == {"macos", "windows", "linux"}

VolumeNames == {"Macintosh HD", "USB"}

\* The paths get_disks probes with Path::exists.
Probes(os) ==
    IF os = "linux" THEN { mount_points[i] : i \in DOMAIN mount_points }
    ELSE IF os = "windows" THEN { drive(l) : l \in DOMAIN Letters }
    ELSE {}

VolInit ==
    /\ fs = [p \in {Root} |-> Dir]
    /\ pc = "idle"
    /\ arg = Root
    /\ listing = << >>
    /\ ret = NoCall
    /\ platform \in Platforms
    /\ host = NoHost
    /\ stack = << >>

\* A probed path appears.
Mount ==
    \E p \in Probes(platform) \ host.present :
        /\ pc = "idle"
        /\ Cardinality(host.present) < MaxDrives
        /\ host' = [host EXCEPT !.present = @ \cup {p}]
        /\ UNCHANGED <<fs, pc, arg, listing, ret, platform, stack>>

\* A probed path disappears.
Unmount ==
    \E p \in host.present :
        /\ pc = "idle"
        /\ host' = [host EXCEPT !.present = @ \ {p}]
        /\ UNCHANGED <<fs, pc, arg, listing, ret, platform, stack>>

\* /Volumes gains or loses an entry, or an entry changes its kind.
SetVolume ==
    \E n \in VolumeNames, k \in {"dir", "file", "nometa", "absent"} :
        /\ pc = "idle"
        /\ platform = "macos"
        /\ host' = [host EXCEPT !.volumes =
                        [m \in (IF k = "absent" THEN DOMAIN @ \ {n} ELSE DOMAIN @ \cup {n})
                            |-> IF m = n THEN k ELSE @[m]]]
        /\ host' # host
        /\ UNCHANGED <<fs, pc, arg, listing, ret, platform, stack>>

\* /Volumes becomes readable or unreadable; the home directory becomes
\* known or unknown.
SetHost ==
    \E r \in BOOLEAN, h \in BOOLEAN :
        /\ pc = "idle"
        /\ platform = "macos"
        /\ host' = [host EXCEPT !.volumes_readable = r, !.home = h]
        /\ host' # host
        /\ UNCHANGED <<fs, pc, arg, listing, ret, platform, stack>>

\* A call of get_disks, start to return.
GetDisks ==
    \E enum \in Orderings(DOMAIN host.volumes) :
        /\ pc = "idle"
        /\ ret' = get_disks(platform, host, enum)
        /\ listing' = enum
        /\ pc' = "returned"
        /\ UNCHANGED <<fs, arg, platform, host, stack>>

VolNext == Mount \/ Unmount \/ SetVolume \/ SetHost \/ GetDisks \/ Return

VolSpec == VolInit /\ [][VolNext]_vars

\* ------------------------------------------------------------------- claims
\* A hidden name: one that begins with '.'.
Hidden(name) == name # << >> /\ Head(name) = "."

Returned == pc = "returned"

Listed == pc = "returned" /\ ret.tag = "Ok"

\* The directory entries of the returned listing.
DirEntries == { ret.entries[i] : i \in { j \in DOMAIN ret.entries : ret.entries[j].is_dir } }

\* How many levels q lies below E.
Level(E, q) == Len(q) - Len(E)

FilesUnder(f, E) == { q \in DOMAIN f : Under(E, q) /\ f[q].kind = "file" }

DirsUnder(f, E) == { q \in DOMAIN f : Under(E, q) /\ f[q].kind = "dir" }

Bytes(f, S) == SumOver(S, [q \in S |-> f[q].len])

\* The true total of the regular-file sizes under E.
TrueTotal(f, E) == Bytes(f, FilesUnder(f, E))

\* The hidden entries under E.
HiddenUnder(f, E) == { h \in DOMAIN f : Under(E, h) /\ Hidden(file_name(h)) }

\* The files under E in directories that only a call with depth > 3 reaches.
BelowCutoff(f, E) == { q \in FilesUnder(f, E) : Level(E, Parent(q)) > DepthLimit }

\* E has a nested chain of subdirectories deeper than 3 levels.
DeepChain(f, E) == \E d \in DirsUnder(f, E) : Level(E, d) > DepthLimit

\* The files under E that no hidden directory, unreadable directory or
\* unreadable metadata keeps from the aggregation.
Visible(f, E) ==
    { q \in FilesUnder(f, E) :
        /\ f[q].access = "ok"
        /\ \A d \in DOMAIN f :
              IsPrefix(E, d) /\ Under(d, q) =>
                  /\ f[d].access = "ok"
                  /\ d # E => ~Hidden(file_name(d)) }

\* C1 as stated: entries whose name begins with '.' never contribute to an
\* ancestor's aggregated size: the size of a listed directory E is the size
\* it has with any hidden file or hidden directory under E removed.
C1_HiddenNeverCounts ==
    Listed =>
        \A e \in DirEntries : \A h \in HiddenUnder(fs, e.path) :
            calculate_folder_size(RemoveSubtree(fs, h), e.path, 0) = e.size

\* C1 amended: hidden directories, with all their content, never contribute
\* to an ancestor's aggregated size: the size of a listed directory E is the
\* size it has with any hidden directory under E, or any entry inside a
\* hidden directory under E, removed.
C1_HiddenDirsNeverCount ==
    Listed =>
        \A e \in DirEntries : \A h \in DOMAIN fs :
            (\E d \in HiddenUnder(fs, e.path) : fs[d].kind = "dir" /\ IsPrefix(d, h)) =>
                calculate_folder_size(RemoveSubtree(fs, h), e.path, 0) = e.size

C1_Witness ==
    /\ Listed
    /\ \E e \in DirEntries : \E d \in HiddenUnder(fs, e.path) :
          /\ fs[d].kind = "dir"
          /\ e.size > 0
          /\ \E q \in FilesUnder(fs, d) : fs[q].len > 0

\* C2 as stated: a listed directory with a chain of subdirectories deeper
\* than 3 levels reports strictly less than the true total of the
\* regular-file sizes under it, and counts no byte below the cutoff.
C2_DeepStrictlyLess ==
    Listed =>
        \A e \in DirEntries :
            DeepChain(fs, e.path) =>
                /\ e.size < TrueTotal(fs, e.path)
                /\ e.size + Bytes(fs, BelowCutoff(fs, e.path)) <= TrueTotal(fs, e.path)

\* C2 amended: a listed directory with a chain of subdirectories deeper than
\* 3 levels reports at most the true total less the bytes below the cutoff
\* (so strictly less than the true total when a file of positive length
\* lies below the cutoff), and its size is the size it has with any
\* directory below the cutoff removed.
C2_DeepAtMost ==
    Listed =>
        \A e \in DirEntries :
            DeepChain(fs, e.path) =>
                /\ e.size + Bytes(fs, BelowCutoff(fs, e.path)) <= TrueTotal(fs, e.path)
                /\ Bytes(fs, BelowCutoff(fs, e.path)) > 0 => e.size < TrueTotal(fs, e.path)
                /\ \A d \in DirsUnder(fs, e.path) :
                      Level(e.path, d) > DepthLimit =>
                          calculate_folder_size(RemoveSubtree(fs, d), e.path, 0) = e.size

C2_Witness ==
    /\ Listed
    /\ \E e \in DirEntries :
          /\ DeepChain(fs, e.path)
          /\ Bytes(fs, BelowCutoff(fs, e.path)) > 0
          /\ e.size < TrueTotal(fs, e.path)

\* C3 as stated: a listed directory whose entire content lies within 3
\* levels reports the exact sum of the byte lengths of the regular files it
\* contains.
C3_ShallowExact ==
    Listed =>
        \A e \in DirEntries :
            ~DeepChain(fs, e.path) => e.size = TrueTotal(fs, e.path)

\* C3 amended: a listed directory whose entire content lies within 3 levels
\* reports the exact sum of the byte lengths of the regular files it
\* contains that are not inside a hidden directory nor kept from the scan
\* by a directory or metadata that cannot be read.
C3_ShallowVisibleExact ==
    Listed =>
        \A e \in DirEntries :
            ~DeepChain(fs, e.path) => e.size = Bytes(fs, Visible(fs, e.path))

C3_Witness ==
    /\ Listed
    /\ \E e \in DirEntries :
          /\ ~DeepChain(fs, e.path)
          /\ \E q \in Visible(fs, e.path) : Level(e.path, q) = DepthLimit + 1 /\ fs[q].len > 0
          /\ e.size > 0

\* C4 as stated: list_directory on a path that does not exist fails with
\* "Path does not exist", and on a path that exists and is a regular file
\* with "Path is not a directory".
C4_PathErrors ==
    Returned =>
        /\ arg \notin DOMAIN fs => ret = Err("Path does not exist", arg)
        /\ (arg \in DOMAIN fs /\ fs[arg].kind = "file") =>
              ret = Err("Path is not a directory", arg)

\* C4 amended: list_directory on a path that does not exist, or whose
\* metadata cannot be read, fails with "Path does not exist"; on a path
\* whose metadata can be read and that is a regular file it fails with
\* "Path is not a directory"; neither returns entries.
C4_StatablePathErrors ==
    Returned =>
        /\ (arg \notin DOMAIN fs \/ ~metadata_ok(fs, arg)) =>
              ret = Err("Path does not exist", arg)
        /\ (metadata_ok(fs, arg) /\ fs[arg].kind = "file") =>
              ret = Err("Path is not a directory", arg)

C4_Witness ==
    /\ Returned
    /\ metadata_ok(fs, arg) /\ fs[arg].kind = "file"
    /\ ret.tag = "Err" /\ ret.msg = "Path is not a directory"
    /\ \E p \in ArgPaths : p \notin DOMAIN fs

\* The children of the listed directory that a listing holds: those whose
\* metadata can be read and whose name is not hidden.
Survivors(f, p) ==
    { q \in Children(f, p) : f[q].access # "nometa" /\ ~Hidden(file_name(q)) }

\* The directories under E that cannot be read.
UnreadableUnder(f, E) == { u \in DirsUnder(f, E) : f[u].access # "ok" }

\* C5: once the listed path exists, is a directory and can be read, the
\* call succeeds whatever fails below: the listing holds exactly the
\* non-hidden children whose metadata can be read, each once, and the size
\* of a listed directory is 0 when it cannot be read and otherwise the size
\* it has with any unreadable directory under it removed.
C5_BestEffort ==
    (Returned /\ read_dir_ok(fs, arg)) =>
        /\ ret.tag = "Ok"
        /\ { ret.entries[i].path : i \in DOMAIN ret.entries } = Survivors(fs, arg)
        /\ Len(ret.entries) = Cardinality(Survivors(fs, arg))
        /\ \A e \in DirEntries :
              /\ fs[e.path].access # "ok" => e.size = 0
              /\ \A u \in UnreadableUnder(fs, e.path) :
                    calculate_folder_size(RemoveSubtree(fs, u), e.path, 0) = e.size

C5_Witness ==
    /\ Listed
    /\ Len(ret.entries) >= 1
    /\ \E q \in Children(fs, arg) :
          fs[q].access = "nometa" /\ ~Hidden(file_name(q))

\* C6: in a returned listing every directory entry precedes every file
\* entry, and within the directories and within the files the size does not
\* increase along the sequence.
C6_Sorted ==
    Listed =>
        \A i, j \in DOMAIN ret.entries :
            i < j =>
                /\ ~(~ret.entries[i].is_dir /\ ret.entries[j].is_dir)
                /\ ret.entries[i].is_dir = ret.entries[j].is_dir =>
                      ret.entries[i].size >= ret.entries[j].size

C6_Witness ==
    /\ Listed
    /\ Len(ret.entries) = 3
    /\ ret.entries[1].is_dir /\ ~ret.entries[3].is_dir
    /\ ret.entries[1].size > ret.entries[2].size
    /\ listing[1] = ret.entries[3].path

\* C7: no entry of a returned listing has a name that starts with '.'.
C7_NoHiddenListed ==
    Listed =>
        \A i \in DOMAIN ret.entries :
            /\ ~Hidden(ret.entries[i].name)
            /\ ret.entries[i].name = file_name(ret.entries[i].path)
            /\ Parent(ret.entries[i].path) = arg

C7_Witness ==
    /\ Listed
    /\ Len(ret.entries) >= 1
    /\ \E h \in Children(fs, arg) :
          /\ Hidden(file_name(h))
          /\ fs[h].access = "ok"
          /\ calculate_folder_size(fs, h, 0) > 0

\* Where read_dir produced the entry with path p.
Position(p) == CHOOSE i \in DOMAIN listing : listing[i] = p

\* Every activation on the stack has a depth of at most 4, which is the
\* level of its directory below the scanned one, and has read its
\* directory only if its depth is at most 3.
C9_Frames ==
    \A i \in DOMAIN stack :
        /\ stack[i].depth <= DepthLimit + 1
        /\ stack[i].depth = i - 1
        /\ stack[i].depth = Level(arg, stack[i].path)
        /\ stack[i].reads => stack[i].depth <= DepthLimit
        /\ ~stack[i].reads => stack[i].todo = << >>

\* C9: size aggregation always terminates, with the value of the
\* recursion: it is never invoked with a depth greater than 4, and reads a
\* directory's children only when the depth is at most 3, so it reads only
\* the 4 directory levels starting at the scanned entry.
C9_ScanTerminates ==
    /\ []C9_Frames
    /\ (pc = "scanning") ~> (pc = "returned" /\ ret = calculate_folder_size(fs, arg, 0))

C9_Witness ==
    /\ pc = "scanning"
    /\ Top.depth = DepthLimit + 1
    /\ ~Top.reads
    /\ \E d \in DirsUnder(fs, Top.path) : Level(arg, d) = DepthLimit + 2

\* C10: two entries of a returned listing that are both directories or both
\* files and have equal size appear in the order in which read_dir
\* produced them.
C10_TiesKeepOrder ==
    Listed =>
        \A i, j \in DOMAIN ret.entries :
            (/\ i < j
             /\ ret.entries[i].is_dir = ret.entries[j].is_dir
             /\ ret.entries[i].size = ret.entries[j].size) =>
                Position(ret.entries[i].path) < Position(ret.entries[j].path)

C10_Witness ==
    /\ Listed
    /\ Len(ret.entries) = 3
    /\ ret.entries[1].size = ret.entries[2].size
    /\ ret.entries[1].is_dir = ret.entries[2].is_dir
    /\ Position(ret.entries[1].path) < Position(ret.entries[2].path)
    /\ Position(ret.entries[3].path) = 1

\* The paths of the volumes the probes find.
Detectable ==
    IF platform = "macos"
    THEN (IF host.home THEN {HomePath} ELSE {})
         \cup (IF host.volumes_readable
               THEN { <<"/Volumes", n>> : n \in { m \in DOMAIN host.volumes : host.volumes[m] = "dir" } }
               ELSE {})
    ELSE host.present

\* C8: get_disks has no error outcome: whatever the probes find it returns a
\* sequence of volumes, one for each volume the probes find, and so the
\* empty sequence when they find none.
C8_VolumesNeverFail ==
    Returned =>
        /\ DOMAIN ret = 1..Len(ret)
        /\ \A i \in DOMAIN ret :
              /\ DOMAIN ret[i] = {"name", "path", "total_space", "available_space"}
              /\ ret[i].total_space = 0 /\ ret[i].available_space = 0
        /\ { ret[i].path : i \in DOMAIN ret } = Detectable
        /\ Len(ret) = Cardinality(Detectable)
        /\ Detectable = {} => ret = << >>

C8_Witness ==
    /\ Returned
    /\ platform = "linux"
    /\ host.present = {}
    /\ ret = << >>
====
